---- MODULE Spec2Model ----
(***************************************************************************)
(* Model of the chat server of src/server.py (class ChatServer): the main  *)
(* thread's accept loop and shutdown, one handler thread per accepted      *)
(* connection (_handle_client), the shared registry self.clients, the      *)
(* non-reentrant registry lock self.lock and broadcast().  The peers are   *)
(* modelled by what a TCP client can do to its connection: connect, write  *)
(* bytes, close, reset.                                                    *)
(*                                                                         *)
(* Strings are sequences of one-character strings, so that formatting      *)
(* (f"{username}: {data}"), strip() and the splitting of the byte stream   *)
(* by recv() are computed and not assumed.                                 *)
(***************************************************************************)
EXTENDS Integers, Sequences, FiniteSets, TLC

\* ------------------------------------------------------------------ bounds
NConn == 3          \* connections (client sockets) the model follows
MaxData == 1        \* message bodies the server reads, from all clients together
MaxDrops == 1       \* connections the clients close or reset, all together

\* -------------------------------------------------------- program constants
BUFFER_SIZE == 1024

Conns == 1..NConn

\* What the clients type: a display name (two clients may pick the same
\* one), then message bodies (with a trailing blank).
ClientName(c) == IF c % 2 = 0 THEN <<"b">> ELSE <<"a">>
Body == <<"h", " ">>

Whitespace == { " " }

None == << "<None>" >>

welcome_msg ==
    << "W", "e", "l", "c", "o", "m", "e", "!", " ", "E", "n", "t", "e",
       "r", " ", "y", "o", "u", "r", " ", "u", "s", "e", "r", "n", "a",
       "m", "e" >>
JOINED ==
    << " ", "j", "o", "i", "n", "e", "d", " ", "t", "h", "e", " ", "c",
       "h", "a", "t" >>
LEFT ==
    << " ", "l", "e", "f", "t", " ", "t", "h", "e", " ", "c", "h", "a",
       "t" >>
SEP == << ":", " " >>

\* ------------------------------------------------------------------ threads
Free == [kind |-> "free", id |-> 0]
MainThread == [kind |-> "main", id |-> 0]
Handler(c) == [kind |-> "handler", id |-> c]

VARIABLES
    conn,       \* conn[c]: the peer's side of connection c
    rpos,       \* rpos[c]: number of bytes of c's stream that recv has returned
    ndrops,     \* number of connections the clients have closed or reset
    fdclosed,   \* fdclosed[c]: the server has closed its socket for c
    pc,         \* pc[c]: position of c's handler thread in _handle_client
    bpc,        \* bpc[c]: position of c's handler thread inside broadcast()
    username,   \* username[c]: the handler's local variable username
    data,       \* data[c]: the handler's local variable data
    clients,    \* self.clients: sequence of [sock, name] in insertion order
    lock,       \* self.lock: the thread that holds it, or Free
    bq,         \* bq[c]: sockets the for-loop of broadcast has still to visit
    bmsg,       \* bmsg[c]: the message argument of the running broadcast
    sent,       \* sent[c]: messages whose send() on socket c returned normally
    nproc,      \* nproc[c]: number of DATA chunks c's session has processed
    bcall,      \* bcall[c]: record of the handler's latest broadcast call
    ended,      \* ended[c]: a recv of the session returned b'' or raised
    mainpc,     \* position of the main thread in start()/shutdown()
    sdq,        \* sockets the for-loop of shutdown has still to close
    lsock       \* self.server_socket: "listening" or "closed"

\* the peers' side, the handlers' locals, broadcast()'s locals, main's locals
netvars == << conn, rpos, ndrops >>
hvars == << pc, username, data, nproc, ended >>
bvars == << bpc, bq, bmsg, bcall >>
mvars == << mainpc, sdq, lsock >>

vars == << netvars, fdclosed, hvars, bvars, clients, lock, sent, mvars >>

\* ------------------------------------------------------------ pure helpers
RECURSIVE LStrip(_)
LStrip(s) == IF s # <<>> /\ Head(s) \in Whitespace THEN LStrip(Tail(s)) ELSE s

RECURSIVE RStrip(_)
RStrip(s) ==
    IF s # <<>> /\ s[Len(s)] \in Whitespace
    THEN RStrip(SubSeq(s, 1, Len(s) - 1))
    ELSE s

\* str.strip()
Strip(s) == RStrip(LStrip(s))

Min(a, b) == IF a < b THEN a ELSE b

RECURSIVE Repeat(_, _)
Repeat(s, k) == IF k = 0 THEN <<>> ELSE s \o Repeat(s, k - 1)

\* The bytes a client writes on its connection, one write after the other
\* (client.py lines 32 and 78): its name, then bodies.
Stream(c) == ClientName(c) \o Repeat(Body, MaxData)

\* The number of bodies of c's stream of which recv has returned a byte
\* when it has returned the first p bytes.
Touched(c, p) ==
    IF p <= Len(ClientName(c)) THEN 0
    ELSE ((p - Len(ClientName(c)) - 1) \div Len(Body)) + 1

\* p bytes of c's stream end with a whole write of the client.
Boundary(c, p) ==
    \/ p = 0
    \/ /\ p >= Len(ClientName(c))
       /\ (p - Len(ClientName(c))) % Len(Body) = 0

\* f"{username} joined the chat", f"{username}: {data}",
\* f"{username} left the chat"
JoinText(name) == name \o JOINED
\* Variant of DataText that takes the name from the body.
DataTextFromBody(name, body) == Strip(body) \o SEP \o body

\* f"{username}: {data}"
DataText(name, body) == name \o SEP \o body
LeaveText(name) == name \o LEFT

\* Variant of DictKeys that yields every key a second time.
DictKeysTwice(d) ==
    [i \in 1..Len(d) |-> d[i].sock] \o [i \in 1..Len(d) |-> d[i].sock]

\* dict operations on self.clients
DictKeys(d) == [i \in 1..Len(d) |-> d[i].sock]
DictKeySet(d) == { d[i].sock : i \in 1..Len(d) }
DictHas(d, k) == k \in DictKeySet(d)
DictGet(d, k) == (CHOOSE i \in 1..Len(d) : d[i].sock = k)
DictName(d, k) == d[DictGet(d, k)].name
DictSet(d, k, v) ==
    IF DictHas(d, k)
    THEN [d EXCEPT ![DictGet(d, k)] = [sock |-> k, name |-> v]]
    ELSE Append(d, [sock |-> k, name |-> v])
\* Variant of DictPop that leaves the key in the dict.
DictPopKeep(d, k) == d

\* dict.pop
DictPop(d, k) ==
    LET i == DictGet(d, k)
    IN  SubSeq(d, 1, i - 1) \o SubSeq(d, i + 1, Len(d))

\* ------------------------------------------------------------ socket model
\* Outcomes of socket.send on the server's socket for r.
SendOutcomes(r) ==
    IF fdclosed[r] \/ conn[r] = "reset" THEN {"err"}
    ELSE IF conn[r] \in {"peer_closed", "eof"} THEN {"ok", "err"}
    ELSE {"ok"}

\* Variant of Deliver that puts the message before the ones already sent.
DeliverFirst(out, m) == << m >> \o out

\* socket.send returned normally: the message is on r's connection.
Deliver(out, m) == Append(out, m)

\* The connections after a broadcast whose sends failed on the sockets in
\* failed.  A send on a connection the peer has closed fails when the peer
\* has answered an earlier segment with a reset: the connection is broken
\* from then on and every later send or recv on it fails too.
AfterSends(failed) ==
    [r \in Conns |->
       IF r \in failed /\ conn[r] \in {"peer_closed", "eof"}
       THEN "reset" ELSE conn[r]]

\* No broadcast() call is running: no message argument, no call record.
NoMsg == <<>>
NoCall == [targets |-> {}, tried |-> {}, failed |-> {}, raised |-> FALSE]

\* Variant of CanAcquire for a lock that never blocks.
CanAcquireAlways(t) == TRUE

\* threading.Lock.acquire by thread t returns: the lock is held by no
\* thread.  The lock is not reentrant: the holder itself blocks too.
CanAcquire(t) == lock = Free

\* The process runs until start() returns; the handler threads are daemon
\* threads and end with it.
Running == mainpc # "exited"

\* The server still reads or writes socket c: its handler has not left the
\* receive loop for good.  After that nothing the client does is seen.
InUse(c) == pc[c] \notin {"leave_bcast", "close", "done"}

Init ==
    /\ conn = [c \in Conns |-> "none"]
    /\ rpos = [c \in Conns |-> 0]
    /\ ndrops = 0
    /\ fdclosed = [c \in Conns |-> FALSE]
    /\ pc = [c \in Conns |-> "idle"]
    /\ bpc = [c \in Conns |-> "none"]
    /\ username = [c \in Conns |-> None]
    /\ data = [c \in Conns |-> None]
    /\ clients = <<>>
    /\ lock = Free
    /\ bq = [c \in Conns |-> <<>>]
    /\ bmsg = [c \in Conns |-> NoMsg]
    /\ sent = [c \in Conns |-> <<>>]
    /\ nproc = [c \in Conns |-> 0]
    /\ bcall = [c \in Conns |-> NoCall]
    /\ ended = [c \in Conns |-> FALSE]
    /\ mainpc = "accepting"
    /\ sdq = <<>>
    /\ lsock = "listening"

\* ------------------------------------------------------------------ clients
\* The client closes its socket in order: the server reads the unread bytes
\* and then end-of-stream.
ClientClose(c) ==
    /\ InUse(c)
    /\ conn[c] = "open"
    /\ ndrops < MaxDrops
    /\ conn' = [conn EXCEPT ![c] = "peer_closed"]
    /\ ndrops' = ndrops + 1
    /\ UNCHANGED << rpos, fdclosed, hvars, bvars, clients,
                    lock, sent, mvars >>

\* The connection is reset (the client dies, or closes with unread input).
ClientReset(c) ==
    /\ InUse(c)
    /\ conn[c] = "open"
    /\ ndrops < MaxDrops
    /\ conn' = [conn EXCEPT ![c] = "reset"]
    /\ ndrops' = ndrops + 1
    /\ UNCHANGED << rpos, fdclosed, hvars, bvars, clients,
                    lock, sent, mvars >>

\* -------------------------------------------------------------- recv model
\* The sizes recv(BUFFER_SIZE) can return on socket c: the client has
\* written any part of its stream and the transport delivers the unread
\* bytes in any split, at least one byte and at most BUFFER_SIZE a call.
\* The server reads at most MaxData bodies from all clients together.
RecvSizes(c) ==
    { n \in 1..Min(Len(Stream(c)) - rpos[c], BUFFER_SIZE) :
        /\ conn[c] \in {"open", "peer_closed"}
        /\ LET t(d) == IF d = c THEN Touched(c, rpos[c] + n)
                       ELSE Touched(d, rpos[d])
               sum[k \in 0..NConn] == IF k = 0 THEN 0 ELSE sum[k - 1] + t(k)
           IN  sum[NConn] <= MaxData }

\* The bytes a recv of size n returns.
RecvBytes(c, n) == SubSeq(Stream(c), rpos[c] + 1, rpos[c] + n)

\* recv returns b'': the peer closed after a whole write and every byte
\* was read ("eof": an end-of-stream was returned before).
RecvEOF(c) ==
    \/ conn[c] = "eof"
    \/ conn[c] = "peer_closed" /\ Boundary(c, rpos[c])

\* recv raises: the connection was reset, or the socket was closed by
\* shutdown() under the handler.
RecvRaises(c) == conn[c] = "reset" \/ fdclosed[c]

\* ------------------------------------------------------------- main thread
\* start(), lines 29-39: a client has connected (client.py line 23); accept
\* returns its socket and the handler thread is started.  The sockets are
\* numbered in the order accept returns them.
Accept(c) ==
    /\ mainpc = "accepting"
    /\ conn[c] = "none"
    /\ \A d \in Conns : d < c => conn[d] # "none"
    /\ conn' = [conn EXCEPT ![c] = "open"]
    /\ pc' = [pc EXCEPT ![c] = "welcome"]
    /\ UNCHANGED << rpos, ndrops, fdclosed, username, data, nproc, ended, bvars,
                    clients, lock, sent, mvars >>

\* start(), lines 41-46: KeyboardInterrupt or an exception of accept ends the
\* loop; finally calls shutdown().
Interrupt ==
    /\ mainpc = "accepting"
    /\ mainpc' = "shutdown"
    /\ UNCHANGED << netvars, fdclosed, hvars, bvars, clients, lock, sent,
                    sdq, lsock >>

\* shutdown(), line 99: with self.lock, and the start of the for loop.
ShutdownAcquire ==
    /\ mainpc = "shutdown"
    /\ CanAcquire(MainThread)
    /\ lock' = MainThread
    /\ sdq' = DictKeys(clients)
    /\ mainpc' = "sd_loop"
    /\ UNCHANGED << netvars, fdclosed, hvars, bvars, clients, sent, lsock >>

\* shutdown(), lines 100-104: close one registered socket.
ShutdownClose ==
    /\ mainpc = "sd_loop"
    /\ sdq # <<>>
    /\ fdclosed' = [fdclosed EXCEPT ![Head(sdq)] = TRUE]
    /\ sdq' = Tail(sdq)
    /\ UNCHANGED << netvars, hvars, bvars, clients, lock, sent, mainpc, lsock >>

\* shutdown(), line 105 and the end of the with block.
ShutdownClear ==
    /\ mainpc = "sd_loop"
    /\ sdq = <<>>
    /\ clients' = <<>>
    /\ lock' = Free
    /\ mainpc' = "sd_listen"
    /\ UNCHANGED << netvars, fdclosed, hvars, bvars, sent, sdq, lsock >>

\* shutdown(), lines 107-112: close the listening socket; start() returns and
\* the process ends, and with it the daemon handler threads.
CloseListen ==
    /\ mainpc = "sd_listen"
    /\ lsock' = "closed"
    /\ mainpc' = "exited"
    /\ UNCHANGED << netvars, fdclosed, hvars, bvars, clients, lock, sent, sdq >>

\* ----------------------------------------------------------------- handler
\* The position a handler continues at when a broadcast() call returns.
AfterBroadcast(site) ==
    IF site \in {"join_bcast", "data_bcast"} THEN "recv_loop" ELSE "close"

\* _handle_client, lines 53-54: send the welcome message; a failed send
\* raises into the except/finally blocks.
SendWelcome(c) ==
    /\ Running
    /\ pc[c] = "welcome"
    /\ \E o \in SendOutcomes(c) :
         IF o = "ok"
         THEN /\ sent' = [sent EXCEPT ![c] = Deliver(@,
                     [text |-> welcome_msg, kind |-> "WELCOME", from |-> c,
                      seq |-> 0])]
              /\ pc' = [pc EXCEPT ![c] = "recv_name"]
         ELSE /\ pc' = [pc EXCEPT ![c] = "cleanup"]
              /\ UNCHANGED sent
    /\ UNCHANGED << netvars, fdclosed, username, data, nproc, ended, bvars, clients,
                    lock, mvars >>

\* _handle_client, line 56: username = recv(BUFFER_SIZE).decode().strip().
\* An end-of-stream gives the empty username and the handler goes on.
RecvName(c) ==
    /\ Running
    /\ pc[c] = "recv_name"
    /\ \/ \E n \in RecvSizes(c) :
            /\ username' = [username EXCEPT ![c] = Strip(RecvBytes(c, n))]
            /\ rpos' = [rpos EXCEPT ![c] = @ + n]
            /\ pc' = [pc EXCEPT ![c] = "register"]
            /\ UNCHANGED << ended, conn >>
       \/ /\ RecvEOF(c)
          /\ username' = [username EXCEPT ![c] = Strip(<<>>)]
          /\ conn' = [conn EXCEPT ![c] = "eof"]
          /\ ended' = [ended EXCEPT ![c] = TRUE]
          /\ pc' = [pc EXCEPT ![c] = "register"]
          /\ UNCHANGED rpos
       \/ /\ RecvRaises(c)
          /\ ended' = [ended EXCEPT ![c] = TRUE]
          /\ pc' = [pc EXCEPT ![c] = "cleanup"]
          /\ UNCHANGED << username, rpos, conn >>
    /\ UNCHANGED << ndrops, fdclosed, data, nproc, bvars, clients, lock,
                    sent, mvars >>

\* Variant of JoinExclude that excludes no socket.
JoinExcludeNone(c) == {}

\* Variant of JoinExclude that excludes every socket.
JoinExcludeAll(c) == Conns

\* _handle_client, line 62: exclude=client_socket.
JoinExclude(c) == {c}

\* _handle_client, lines 58-62: with self.lock:
\* self.clients[client_socket] = username, and the call
\* broadcast("... joined the chat", exclude=client_socket).  The lock is
\* taken and released around one assignment, which is one step here.
Register(c) ==
    /\ Running
    /\ pc[c] = "register"
    /\ CanAcquire(Handler(c))
    /\ clients' = DictSet(clients, c, username[c])
    /\ pc' = [pc EXCEPT ![c] = "join_bcast"]
    /\ bpc' = [bpc EXCEPT ![c] = "lock"]
    /\ bmsg' = [bmsg EXCEPT ![c] =
                  [text |-> JoinText(username[c]), kind |-> "JOIN",
                   from |-> c, seq |-> 0, exclude |-> JoinExclude(c)]]
    /\ UNCHANGED << netvars, fdclosed, username, data, nproc, ended, bq, bcall,
                    lock, sent, mvars >>

\* _handle_client, lines 65-71: one turn of the receive loop.  Whatever one
\* recv returns is one message; b'' leaves the loop; an error raises.
RecvData(c) ==
    /\ Running
    /\ pc[c] = "recv_loop"
    /\ \/ \E n \in RecvSizes(c) :
            /\ data' = [data EXCEPT ![c] = RecvBytes(c, n)]
            /\ rpos' = [rpos EXCEPT ![c] = @ + n]
            /\ nproc' = [nproc EXCEPT ![c] = @ + 1]
            /\ pc' = [pc EXCEPT ![c] = "data_bcast"]
            /\ bpc' = [bpc EXCEPT ![c] = "lock"]
            /\ bmsg' = [bmsg EXCEPT ![c] =
                  [text |-> DataText(username[c], RecvBytes(c, n)),
                   kind |-> "DATA", from |-> c, seq |-> nproc[c] + 1,
                   exclude |-> {c}]]
            /\ UNCHANGED << ended, conn >>
       \/ /\ RecvEOF(c)
          /\ data' = [data EXCEPT ![c] = <<>>]
          /\ conn' = [conn EXCEPT ![c] = "eof"]
          /\ ended' = [ended EXCEPT ![c] = TRUE]
          /\ pc' = [pc EXCEPT ![c] = "cleanup"]
          /\ UNCHANGED << rpos, nproc, bpc, bmsg >>
       \/ /\ RecvRaises(c)
          /\ ended' = [ended EXCEPT ![c] = TRUE]
          /\ pc' = [pc EXCEPT ![c] = "cleanup"]
          /\ UNCHANGED << data, rpos, nproc, bpc, bmsg, conn >>
    /\ UNCHANGED << ndrops, fdclosed, username, bq, bcall, clients,
                    lock, sent, mvars >>

\* --------------------------------------------------------------- broadcast
\* Variant of ShouldSend without the test of line 91.
ShouldSendAll(r, exclude) == TRUE

\* broadcast, line 91: if client_socket != exclude.
ShouldSend(r, exclude) == r \notin exclude

\* Variant of OnSendError without the except clause: the exception leaves
\* the loop.
OnSendErrorRaise(st, r) ==
    [st EXCEPT !.tried = @ \cup {r}, !.failed = @ \cup {r}, !.raised = TRUE]

\* broadcast, lines 94-95: except: pass.  The failure is dropped and the
\* loop goes on with the next socket.  st is the state of the running loop.
OnSendError(st, r) ==
    [st EXCEPT !.tried = @ \cup {r}, !.failed = @ \cup {r}]

\* broadcast, lines 91-95: the body of the for loop for socket r, when the
\* outcome of send on r is o.
LoopBody(st, r, o, m, exclude) ==
    IF st.raised \/ ~ShouldSend(r, exclude) THEN st
    ELSE IF o = "ok"
         THEN [st EXCEPT !.out[r] = Deliver(@, m), !.tried = @ \cup {r}]
         ELSE OnSendError(st, r)

\* broadcast, line 90: for client_socket in self.clients, over the sockets q
\* in the order of the dict; outs[r] is the outcome of send on r.
RECURSIVE ForLoop(_, _, _, _, _)
ForLoop(st, q, outs, m, exclude) ==
    IF q = <<>> THEN st
    ELSE ForLoop(LoopBody(st, Head(q), outs[Head(q)], m, exclude),
                 Tail(q), outs, m, exclude)

\* broadcast, line 89: with self.lock, entered.
BroadcastAcquire(c) ==
    /\ Running
    /\ bpc[c] = "lock"
    /\ CanAcquire(Handler(c))
    /\ lock' = Handler(c)
    /\ bq' = [bq EXCEPT ![c] = DictKeys(clients)]
    /\ bpc' = [bpc EXCEPT ![c] = "loop"]
    /\ bcall' = [bcall EXCEPT ![c] =
                   [targets |-> { r \in DictKeySet(clients) :
                                    r \notin bmsg[c].exclude },
                    tried |-> {}, failed |-> {}, raised |-> FALSE]]
    /\ UNCHANGED << netvars, fdclosed, hvars, bmsg, clients, sent, mvars >>

\* broadcast, lines 90-95: the for loop, every send of it, run under the
\* lock.  The sends are one step: no other thread reads what they write.
BroadcastLoop(c) ==
    /\ Running
    /\ bpc[c] = "loop"
    /\ \E outs \in [Conns -> {"ok", "err"}] :
         /\ \A r \in Conns : outs[r] \in SendOutcomes(r)
         /\ LET m == [text |-> bmsg[c].text, kind |-> bmsg[c].kind,
                      from |-> bmsg[c].from, seq |-> bmsg[c].seq]
                st == ForLoop([out |-> sent, tried |-> {}, failed |-> {},
                               raised |-> FALSE],
                              bq[c], outs, m, bmsg[c].exclude)
            IN  /\ sent' = st.out
                /\ conn' = AfterSends(st.failed)
                /\ bcall' = [bcall EXCEPT ![c].tried = st.tried,
                                          ![c].failed = st.failed,
                                          ![c].raised = st.raised]
    /\ bq' = [bq EXCEPT ![c] = <<>>]
    /\ bpc' = [bpc EXCEPT ![c] = "unlock"]
    /\ UNCHANGED << rpos, ndrops, fdclosed, hvars, bmsg, clients, lock,
                    mvars >>

\* broadcast, the end of the with block: the lock is released and the call
\* returns to its caller, or raises what the loop raised.
BroadcastReturn(c) ==
    /\ Running
    /\ bpc[c] = "unlock"
    /\ lock' = Free
    /\ bpc' = [bpc EXCEPT ![c] = "none"]
    /\ bmsg' = [bmsg EXCEPT ![c] = NoMsg]
    /\ bcall' = [bcall EXCEPT ![c] = NoCall]
    /\ pc' = [pc EXCEPT ![c] = IF bcall[c].raised THEN "cleanup"
                                ELSE AfterBroadcast(pc[c])]
    /\ UNCHANGED << netvars, fdclosed, username, data, nproc, ended, bq, clients,
                    sent, mvars >>

\* ----------------------------------------------------------------- cleanup
\* _handle_client, lines 76-80 (the finally block): with self.lock; a
\* registered socket is popped and broadcast("... left the chat") is called
\* inside the with block, the lock still held by this thread; otherwise the
\* with block ends and the lock is free again.
Cleanup(c) ==
    /\ Running
    /\ pc[c] = "cleanup"
    /\ CanAcquire(Handler(c))
    /\ \/ /\ DictHas(clients, c)
          /\ lock' = Handler(c)
          /\ username' = [username EXCEPT ![c] = DictName(clients, c)]
          /\ clients' = DictPop(clients, c)
          /\ pc' = [pc EXCEPT ![c] = "leave_bcast"]
          /\ bpc' = [bpc EXCEPT ![c] = "lock"]
          /\ bmsg' = [bmsg EXCEPT ![c] =
                        [text |-> LeaveText(DictName(clients, c)),
                         kind |-> "LEAVE", from |-> c, seq |-> 0,
                         exclude |-> {}]]
       \/ /\ ~DictHas(clients, c)
          /\ pc' = [pc EXCEPT ![c] = "close"]
          /\ UNCHANGED << lock, username, clients, bpc, bmsg >>
    /\ UNCHANGED << netvars, fdclosed, data, nproc, ended, bq, bcall, sent,
                    mvars >>

\* _handle_client, lines 82-85: client_socket.close(); the thread ends.
Close(c) ==
    /\ Running
    /\ pc[c] = "close"
    /\ fdclosed' = [fdclosed EXCEPT ![c] = TRUE]
    /\ pc' = [pc EXCEPT ![c] = "done"]
    /\ UNCHANGED << netvars, username, data, nproc, ended, bvars, clients, lock,
                    sent, mvars >>

\* ------------------------------------------------------------ specification
HandlerStep(c) ==
    \/ SendWelcome(c)
    \/ RecvName(c)
    \/ Register(c)
    \/ RecvData(c)
    \/ BroadcastAcquire(c)
    \/ BroadcastLoop(c)
    \/ BroadcastReturn(c)
    \/ Cleanup(c)
    \/ Close(c)

ShutdownStep ==
    \/ ShutdownAcquire
    \/ ShutdownClose
    \/ ShutdownClear
    \/ CloseListen

ClientStep(c) ==
    \/ ClientClose(c)
    \/ ClientReset(c)

\* The server runs and is not interrupted.
Next ==
    \/ \E c \in Conns : ClientStep(c)
    \/ \E c \in Conns : Accept(c)
    \/ \E c \in Conns : HandlerStep(c)

Spec == Init /\ [][Next]_vars

\* The scheduler runs every handler thread that can take a step.  Nothing
\* obliges a client to connect or to leave.
FairSpec ==
    /\ Spec
    /\ \A c \in Conns : WF_vars(HandlerStep(c))

\* The server is interrupted at any time and shuts down, while it serves
\* all connections but the last.
ShutdownConns == 1..(NConn - 1)

NextShutdown ==
    \/ \E c \in ShutdownConns : ClientStep(c)
    \/ \E c \in ShutdownConns : Accept(c)
    \/ \E c \in ShutdownConns : HandlerStep(c)
    \/ Interrupt
    \/ ShutdownStep

SpecShutdown == Init /\ [][NextShutdown]_vars

FairSpecShutdown ==
    /\ SpecShutdown
    /\ \A c \in ShutdownConns : WF_vars(HandlerStep(c))
    /\ WF_vars(ShutdownStep)

\* ------------------------------------------------------------------ claims
Registered(c) == DictHas(clients, c)

\* Some message of kind k that c's session broadcast was sent on r's socket.
SentTo(r, k, c) ==
    \E i \in 1..Len(sent[r]) : sent[r][i].kind = k /\ sent[r][i].from = c

\* C1: whenever a and b are both registered and a's connection has reached
\* end-of-stream, b is eventually sent "<a's name> left the chat" and a is
\* no longer in the registry.
C1_DisconnectNotice ==
    \A a \in Conns : \A b \in Conns \ {a} :
      [](( /\ Registered(a) /\ Registered(b)
           /\ conn[a] = "eof" /\ pc[a] = "cleanup" )
         => <>( /\ ~Registered(a)
                /\ \E i \in 1..Len(sent[b]) :
                     /\ sent[b][i].kind = "LEAVE"
                     /\ sent[b][i].from = a
                     /\ sent[b][i].text = LeaveText(username[a]) ))

\* Session a holds a DATA message to relay while b is registered.
PendingRelay(a, b) ==
    /\ pc[a] = "data_bcast" /\ bpc[a] = "lock"
    /\ Registered(a) /\ Registered(b)

\* C2: whenever a registered participant a with display name n has sent a
\* DATA body m while b is registered, b is eventually sent exactly "n: m".
\* As a property of states: while the message waits for the registry lock,
\* the thread that holds the lock can take a step (if it cannot, the lock
\* is never released and the message is never sent to b).
C2_Relay ==
    \A a \in Conns : \A b \in Conns \ {a} :
      PendingRelay(a, b) =>
        /\ bmsg[a].text = DictName(clients, a) \o <<":", " ">> \o data[a]
        /\ \A t \in Conns : lock = Handler(t) => ENABLED HandlerStep(t)

\* C3: after a connection d has failed or disconnected, a new connection
\* that has given its name is eventually registered, and a DATA message of
\* a registered participant eventually leaves for every other participant
\* that stays registered.
C3_Containment ==
    \A d \in Conns : \A a \in Conns \ {d} :
      /\ []((ended[d] /\ pc[a] = "register") => <>Registered(a))
      /\ \A b \in Conns \ {a, d} :
           []((ended[d] /\ PendingRelay(a, b))
              => <>(~Registered(b) \/ bpc[a] = "unlock"))

\* C4: a DATA message received from participant p and broadcast with
\* exclude=p is never sent on p's own connection.
C4_NoSelfEcho ==
    \A p \in Conns : ~SentTo(p, "DATA", p)

\* C4 witness: a registered p has broadcast a DATA message and it was sent
\* to another participant, p being a key of the registry the loop ran over.
C4_Witness ==
    \E p \in Conns : \E r \in Conns \ {p} :
      /\ pc[p] = "data_bcast" /\ bpc[p] = "unlock"
      /\ Registered(p)
      /\ r \in bcall[p].tried \ bcall[p].failed
      /\ SentTo(r, "DATA", p)

\* C5: if the send to one registered recipient fails, the same broadcast
\* call has still attempted every registered recipient but the excluded one
\* when its loop ends, and it raises nothing to its caller.
C5_BroadcastIsolation ==
    \A c \in Conns :
      (bpc[c] = "unlock" /\ bcall[c].failed # {}) =>
        /\ bcall[c].tried = DictKeySet(clients) \ bmsg[c].exclude
        /\ ~bcall[c].raised

\* The place of socket r in the registry's iteration order.
Place(r) == CHOOSE i \in 1..Len(clients) : clients[i].sock = r

\* C5 witness: a broadcast whose send to f failed and whose send to a
\* recipient r that comes after f in the registry succeeded.
C5_Witness ==
    \E c \in Conns : \E f \in Conns : \E r \in Conns :
      /\ bpc[c] = "unlock"
      /\ f \in bcall[c].failed
      /\ r \in bcall[c].tried \ bcall[c].failed
      /\ Place(f) < Place(r)
      /\ sent[r][Len(sent[r])].from = c

\* The session has completed the handshake: it has read a name and
\* registered it.
HandshakeDone(c) ==
    \/ pc[c] \in {"join_bcast", "recv_loop", "data_bcast"}
    \/ pc[c] \in {"cleanup", "leave_bcast", "close", "done"}
         /\ username[c] # None

\* C6: a connection is a key of the registry if and only if its session has
\* completed the handshake and its stream has not ended or errored.
C6_RegistryInvariant ==
    \A c \in Conns : Registered(c) <=> (HandshakeDone(c) /\ ~ended[c])

\* C7: every recipient that is sent two DATA messages of one sender is sent
\* them in the order the sender's session processed them.
C7_PerSenderOrder ==
    \A r \in Conns : \A i \in 1..Len(sent[r]) : \A j \in 1..Len(sent[r]) :
      ( /\ i < j
        /\ sent[r][i].kind = "DATA" /\ sent[r][j].kind = "DATA"
        /\ sent[r][i].from = sent[r][j].from )
      => sent[r][i].seq < sent[r][j].seq

\* C7 witness: a recipient was sent two DATA messages of one sender, and
\* another session's broadcast in between.
C7_Witness ==
    \E r \in Conns : \E i \in 1..Len(sent[r]) : \E j \in 1..Len(sent[r]) :
      /\ i + 1 < j
      /\ sent[r][i].kind = "DATA" /\ sent[r][j].kind = "DATA"
      /\ sent[r][i].from = sent[r][j].from
      /\ sent[r][i + 1].from \notin {r, sent[r][i].from}

\* C8: no thread performs a network send while it holds the registry lock.
C8_NoSendUnderLock ==
    \A c \in Conns :
      ~( /\ lock = Handler(c)
         /\ bpc[c] = "loop"
         /\ \E i \in 1..Len(bq[c]) : ShouldSend(bq[c][i], bmsg[c].exclude) )

\* A session is CLOSED: its handler has finished the cleanup block (or the
\* connection never had a session).
Closed(c) == pc[c] \in {"idle", "done"}

\* C9: the listening socket is released only after every session has
\* reached CLOSED.
C9_Shutdown ==
    lsock = "closed" => \A c \in Conns : Closed(c)

\* C10: when a send to recipient r fails during a broadcast, r is eventually
\* removed from the registry and the broadcast of a LEAVE notice for r runs.
C10_FailedRecipientCleanup ==
    \A c \in Conns : \A r \in Conns \ {c} :
      []((bpc[c] = "unlock" /\ r \in bcall[c].failed)
         => <>( /\ ~Registered(r)
                /\ pc[r] = "leave_bcast" /\ bpc[r] = "unlock" ))

\* C11: the DATA messages a session extracts are the messages its client
\* wrote, in order and each once: every chunk the receive loop hands to
\* broadcast is one whole body, and the bytes read so far are the name and
\* as many whole bodies as chunks were processed.
C11_Framing ==
    \A c \in Conns :
      pc[c] = "data_bcast" =>
        /\ data[c] = Body
        /\ rpos[c] = Len(ClientName(c)) + nproc[c] * Len(Body)

\* Some message of kind k that c's session broadcast is in the log s of
\* the messages sent on r's socket.
SentIn(s, r, k, c) ==
    \E i \in 1..Len(s[r]) : s[r][i].kind = k /\ s[r][i].from = c

\* C12: the JOIN notice for a is never sent on a's own connection, and a
\* step that sends it to r is a step of a's JOIN broadcast with r already
\* registered: a participant that registers later is not sent it.
C12_JoinNotReplayed ==
    [][ \A a \in Conns : \A r \in Conns :
          (~SentIn(sent, r, "JOIN", a) /\ SentIn(sent', r, "JOIN", a))
          => /\ r # a
             /\ pc[a] = "join_bcast" /\ bpc[a] = "loop"
             /\ Registered(r) ]_vars

\* C12 witness: r was sent a's JOIN notice; b registered after a's JOIN
\* broadcast, its connection is open and it was not sent a's notice, while
\* a was sent b's.
C12_Witness ==
    \E a \in Conns : \E b \in Conns \ {a} : \E r \in Conns \ {a, b} :
      /\ SentTo(r, "JOIN", a)
      /\ Registered(a) /\ Registered(b)
      /\ pc[a] = "recv_loop" /\ pc[b] = "recv_loop"
      /\ conn[b] = "open"
      /\ SentTo(a, "JOIN", b)
      /\ ~SentTo(b, "JOIN", a)
      /\ ~SentTo(a, "JOIN", a)

\* The number of times the message of c's running broadcast call is in the
\* log of the messages sent on r's socket.
TimesSent(c, r) ==
    Cardinality({ i \in 1..Len(sent[r]) :
                    /\ sent[r][i].from = c
                    /\ sent[r][i].kind = bmsg[c].kind
                    /\ sent[r][i].seq = bmsg[c].seq })

\* C13: within one broadcast call the for loop visits each registered socket
\* once, each recipient is sent the message at most once, and a recipient
\* whose send failed is not sent it.
C13_AtMostOnce ==
    \A c \in Conns :
      /\ bpc[c] = "loop" =>
           \A i \in 1..Len(bq[c]) : \A j \in 1..Len(bq[c]) :
             bq[c][i] = bq[c][j] => i = j
      /\ bpc[c] = "unlock" =>
           \A r \in Conns :
             /\ TimesSent(c, r) <= 1
             /\ r \in bcall[c].failed => TimesSent(c, r) = 0

\* C13 witness: a DATA broadcast whose send to f failed and whose send to
\* r succeeded, once.
C13_Witness ==
    \E c \in Conns : \E f \in Conns : \E r \in Conns :
      /\ bpc[c] = "unlock" /\ bmsg[c].kind = "DATA"
      /\ f \in bcall[c].failed /\ TimesSent(c, f) = 0
      /\ r \in bcall[c].tried \ bcall[c].failed /\ TimesSent(c, r) = 1

\* C14: every DATA message a session broadcasts for a registered connection
\* carries the name the registry holds for that connection, before the
\* separator and the body as received.
C14_AuthoritativeName ==
    \A c \in Conns :
      (pc[c] = "data_bcast" /\ Registered(c)) =>
        /\ bmsg[c].text = DictName(clients, c) \o SEP \o data[c]
        /\ \A r \in Conns : \A i \in 1..Len(sent[r]) :
             ( /\ sent[r][i].kind = "DATA" /\ sent[r][i].from = c
               /\ sent[r][i].seq = bmsg[c].seq )
             => sent[r][i].text = DictName(clients, c) \o SEP \o data[c]

\* C14 witness: a DATA message was sent to r under the sender's registered
\* name, which is not empty and is not the body's text.
C14_Witness ==
    \E c \in Conns : \E r \in Conns \ {c} :
      /\ pc[c] = "data_bcast" /\ bpc[c] = "unlock" /\ Registered(c)
      /\ DictName(clients, c) \notin {<<>>, data[c]}
      /\ sent[r] # <<>>
      /\ sent[r][Len(sent[r])].text = DictName(clients, c) \o SEP \o data[c]

\* Connection r was registered (line 59) and is not yet unregistered
\* (line 78), as the position of its handler tells.
RegisteredNotYetRemoved(r) ==
    \/ pc[r] \in {"join_bcast", "recv_loop", "data_bcast"}
    \/ pc[r] = "cleanup" /\ username[r] # None

\* The threads inside a with self.lock block of broadcast or shutdown.
InCritical ==
    { Handler(c) : c \in { d \in Conns : bpc[d] \in {"loop", "unlock"} } }
      \cup (IF mainpc = "sd_loop" THEN {MainThread} ELSE {})

\* C15: registry operations exclude each other, and the connections a
\* broadcast iterates over are the connections registered and not yet
\* unregistered when the iteration began, and stay so while it runs.
C15_RegistryConsistency ==
    /\ Cardinality(InCritical) <= 1
    /\ \A t \in InCritical : lock = t
    /\ \A r \in Conns : Registered(r) <=> RegisteredNotYetRemoved(r)
    /\ \A c \in Conns :
         /\ bpc[c] = "loop" => bq[c] = DictKeys(clients)
         /\ bpc[c] = "unlock" =>
              bcall[c].targets = DictKeySet(clients) \ bmsg[c].exclude

\* C15 witness: a broadcast iterates over two or more connections while a
\* registration and an unregistration of other sessions wait for the lock.
C15_Witness ==
    \E c \in Conns : \E d \in Conns \ {c} : \E e \in Conns \ {c, d} :
      /\ bpc[c] = "loop" /\ Len(bq[c]) >= 2
      /\ pc[d] = "register"
      /\ pc[e] = "cleanup" /\ Registered(e)

\* C16: every session whose stream has ended or errored eventually reaches
\* CLOSED: its handler finishes the cleanup block and closes the connection.
C16_SessionTermination ==
    \A c \in Conns : [](ended[c] => <>(pc[c] = "done"))

\* C17: no thread tries to acquire the registry lock while it holds it; in
\* particular the cleanup block of a session does not call broadcast, whose
\* first statement acquires the lock, with the lock held.
C17_NoSelfAcquire ==
    \A c \in Conns : ~(lock = Handler(c) /\ bpc[c] = "lock")

\* The handler of c is past the test of its cleanup block (line 77).
CleanupRan(c) == pc[c] \in {"leave_bcast", "close", "done"}

\* C18: a session calls the LEAVE broadcast only from its cleanup block, with
\* its connection in the registry and removed by that step; if the connection
\* is absent the cleanup changes neither the registry nor the messages; and
\* the cleanup block never runs a second time.
C18_CleanupIdempotent ==
    [][ \A c \in Conns :
          /\ (pc[c] # "leave_bcast" /\ pc'[c] = "leave_bcast") =>
               /\ pc[c] = "cleanup"
               /\ Registered(c) /\ ~DictHas(clients', c)
               /\ bmsg'[c].kind = "LEAVE"
          /\ (pc[c] = "cleanup" /\ ~Registered(c) /\ pc'[c] # "cleanup") =>
               /\ pc'[c] = "close"
               /\ clients' = clients /\ bmsg' = bmsg /\ sent' = sent
          /\ CleanupRan(c) =>
               /\ pc'[c] \in {"leave_bcast", "close", "done"}
               /\ ~DictHas(clients', c) ]_vars

\* C18 witness: shutdown has cleared the registry with c in it, c's cleanup
\* then found the connection absent, and no LEAVE notice of c was sent.
C18_Witness ==
    \E c \in Conns :
      /\ mainpc = "sd_listen"
      /\ pc[c] \in {"close", "done"}
      /\ username[c] # None /\ ended[c]
      /\ bmsg[c] = NoMsg
      /\ \A r \in Conns : ~SentTo(r, "LEAVE", c)

\* Connection c was registered by its session and is in the registry no
\* more.
Removed(c) ==
    /\ ~Registered(c)
    /\ \/ pc[c] \in {"join_bcast", "recv_loop", "data_bcast", "leave_bcast"}
       \/ pc[c] \in {"cleanup", "close", "done"} /\ username[c] # None

\* C19: once a session's connection has been removed from the registry it
\* is not added again, and no step sends a JOIN or DATA message of that
\* session to any connection.
C19_ClosedTerminal ==
    [][ \A c \in Conns :
          Removed(c) =>
            /\ ~DictHas(clients', c)
            /\ \A r \in Conns :
                 Len(sent'[r]) > Len(sent[r]) =>
                   \/ sent'[r][Len(sent'[r])].from # c
                   \/ sent'[r][Len(sent'[r])].kind \notin {"JOIN", "DATA"}
      ]_vars

\* C20: a connection whose stream ended before it sent a name is never a key
\* of the registry, and its session broadcasts no JOIN and no LEAVE notice.
C20_HandshakeRequired ==
    \A c \in Conns :
      (ended[c] /\ rpos[c] = 0) =>
        /\ ~Registered(c)
        /\ pc[c] \notin {"join_bcast", "leave_bcast"}
        /\ \A r \in Conns : ~SentTo(r, "JOIN", c) /\ ~SentTo(r, "LEAVE", c)

\* The step sends a DATA message of s's session on r's socket.
SendsData(s, r) ==
    /\ Len(sent'[r]) > Len(sent[r])
    /\ sent'[r][Len(sent'[r])].kind = "DATA"
    /\ sent'[r][Len(sent'[r])].from = s

\* C21: a recipient r that was registered before s and is still registered
\* is sent a DATA message of s only after s's JOIN notice, and no DATA
\* message of s is sent once s's cleanup has called the LEAVE broadcast or
\* r was sent s's LEAVE notice.
C21_NoticeOrder ==
    [][ \A s \in Conns : \A r \in Conns \ {s} :
          /\ ( /\ SendsData(s, r)
               /\ Registered(r) /\ Registered(s)
               /\ Place(r) < Place(s) )
             => SentIn(sent, r, "JOIN", s)
          /\ (CleanupRan(s) \/ SentIn(sent, r, "LEAVE", s))
             => ~SendsData(s, r) ]_vars

\* C21 witness: r, registered before s, was sent s's JOIN notice and then a
\* DATA message of s, and s's cleanup has since called the LEAVE broadcast.
C21_Witness ==
    \E s \in Conns : \E r \in Conns \ {s} :
      /\ Registered(r) /\ pc[s] = "leave_bcast"
      /\ \E i \in 1..Len(sent[r]) : \E j \in 1..Len(sent[r]) :
           /\ i < j
           /\ sent[r][i].kind = "JOIN" /\ sent[r][i].from = s
           /\ sent[r][j].kind = "DATA" /\ sent[r][j].from = s

====
